---- MODULE Spec2Model ----
(***************************************************************************)
(* State-machine model of the LLoms chat client (main.go): the             *)
(* conversation store, the history window, the tool gate, the streaming    *)
(* chat turn and the session loop.                                         *)
(*                                                                         *)
(* Text is modelled as a sequence of one-character strings so that         *)
(* comparison, trimming, concatenation and formatting are computed.        *)
(***************************************************************************)
EXTENDS Integers, Sequences, FiniteSets, TLC

(* ------------------------------------------------------------------ *)
(* Program constants (main.go:22-28)                                   *)
(* ------------------------------------------------------------------ *)
RoleSystem == "system"
RoleUser == "user"
RoleAssistant == "assistant"
MaxConversationMessages == 4

(* ------------------------------------------------------------------ *)
(* Bounds of the model                                                 *)
(* ------------------------------------------------------------------ *)
\* number of input lines the scanner can deliver before end of input
MaxLines == 2
\* first wall-clock reading of the session; like a UnixNano of this century,
\* all readings of a session have the same number of digits
ClockStart == 1000

(* ------------------------------------------------------------------ *)
(* Input domains                                                       *)
(* ------------------------------------------------------------------ *)
\* config.SystemPrompt as loaded
SystemPrompt == <<"B", "e", " ", "b", "r", "i", "e", "f">>

LineExit == <<"e", "x", "i", "t">>
LineQuit == <<"q", "u", "i", "t">>
LineEmpty == <<>>
LineBlank == <<" ", "\t", " ">>
LineQuitSp == <<"q", "u", "i", "t", " ">>
LineQuitCap == <<"Q", "u", "i", "t">>
\* the lines stdin can deliver
Lines == {LineExit, LineQuit, LineEmpty, LineBlank, LineQuitSp, LineQuitCap}

ToolA == <<"A">>
ToolB == <<"B">>
ToolC == <<"C">>
\* what ListTools can return on success
ToolSets == {<<>>, <<ToolA, ToolB>>}
\* answer.Message.ToolCalls of the tools model (names of the proposed calls)
ToolCallLists == {<<>>, <<ToolA, ToolB>>, <<ToolC, ToolA>>}
\* mcpResult.Text of a successful tool invocation
ToolTexts == {<<"4", "2">>}
\* answer.Message.Content of one streamed fragment; a modelled stream delivers
\* any sequence of these in which no fragment occurs twice
Fragments == {<<"H", "i">>, <<"!">>}
\* how far the wall clock has moved between two readings of time.Now():
\* 0 when both fall into one granule of the clock
Ticks == {0, 1}

(* ------------------------------------------------------------------ *)
(* Text helpers                                                        *)
(* ------------------------------------------------------------------ *)
DigitChars == <<"0", "1", "2", "3", "4", "5", "6", "7", "8", "9">>

\* fmt.Sprintf("%d", n) for n >= 0
RECURSIVE FormatInt(_)
FormatInt(n) ==
    IF n < 10 THEN <<DigitChars[n + 1]>>
    ELSE FormatInt(n \div 10) \o <<DigitChars[(n % 10) + 1]>>

\* byte value order of the characters that occur in identifiers
CharCode(c) == CHOOSE i \in 1..10 : DigitChars[i] = c

\* Go's string comparison a < b (bytewise lexicographic)
RECURSIVE StrLess(_, _)
StrLess(a, b) ==
    IF b = <<>> THEN FALSE
    ELSE IF a = <<>> THEN TRUE
    ELSE IF Head(a) = Head(b) THEN StrLess(Tail(a), Tail(b))
    ELSE CharCode(Head(a)) < CharCode(Head(b))

IsSpace(c) == c \in {" ", "\t"}

RECURSIVE TrimLeft(_)
TrimLeft(s) == IF s # <<>> /\ IsSpace(Head(s)) THEN TrimLeft(Tail(s)) ELSE s

RECURSIVE TrimRight(_)
TrimRight(s) ==
    IF s # <<>> /\ IsSpace(s[Len(s)]) THEN TrimRight(SubSeq(s, 1, Len(s) - 1)) ELSE s

\* strings.TrimSpace
TrimSpace(s) == TrimRight(TrimLeft(s))

\* fmt.Sprintf("I used %s and got this result:", name)
UsedToolText(name) ==
    <<"I", " ", "u", "s", "e", "d", " ">> \o name \o
    <<" ", "a", "n", "d", " ", "g", "o", "t", " ", "t", "h", "i", "s", " ",
      "r", "e", "s", "u", "l", "t", ":">>

\* llm.Message
Message(role, content) == [Role |-> role, Content |-> content]

(* ------------------------------------------------------------------ *)
(* Pure functions of main.go                                           *)
(* ------------------------------------------------------------------ *)
\* variant: the identifier is taken from the low-order part of the reading only
generateMsgIDLowOrder(t) == FormatInt(t % 3)

\* generateMsgID applied to the wall-clock reading t (time.Now().UnixNano())
generateMsgID(t) == FormatInt(t)

\* variant: the slice keeps the first limit messages instead of the last
getLastMessagesHead(limit, msgs) ==
    IF limit < 0 THEN msgs
    ELSE IF Len(msgs) <= limit THEN msgs
    ELSE SubSeq(msgs, 1, limit)

\* the body of getLastMessages with the limit as a parameter
getLastMessagesWith(limit, msgs) ==
    IF limit < 0 THEN msgs
    ELSE IF Len(msgs) <= limit THEN msgs
    ELSE SubSeq(msgs, Len(msgs) - limit + 1, Len(msgs))

getLastMessages(msgs) == getLastMessagesWith(MaxConversationMessages, msgs)

\* variant: the loop returns true on the first tool without comparing names
toolExistsNoCompare(toolName, tools) == \E i \in 1..Len(tools) : TRUE

toolExists(toolName, tools) == \E i \in 1..Len(tools) : tools[i] = toolName

\* variant: the command is compared after trimming
IsQuitCommandTrimmed(line) == TrimSpace(line) = LineExit \/ TrimSpace(line) = LineQuit

\* userInput == "exit" || userInput == "quit"
IsQuitCommand(line) == line = LineExit \/ line = LineQuit

\* variant: only the empty line is discarded
IsBlankEmptyOnly(line) == line = <<>>

\* strings.TrimSpace(userInput) == ""
IsBlank(line) == TrimSpace(line) = <<>>

\* variant: the last proposed call is taken
LastToolCall(calls) == calls[Len(calls)]

\* answer.Message.ToolCalls[0]
FirstToolCall(calls) == calls[1]

\* variant: the builder is overwritten by the fragment
WriteStringOverwrite(builder, content) == content

\* assistantResponse.WriteString(answer.Message.Content)
WriteString(builder, content) == builder \o content

(* ------------------------------------------------------------------ *)
(* Conversation store (history.MemoryMessages over a map keyed by id)  *)
(* ------------------------------------------------------------------ *)
\* make(map[string]llm.MessageRecord)
EmptyStore == [k \in {} |-> Message(RoleSystem, <<>>)]

\* SaveMessage succeeds unless the identifier is already present
SaveOk(store, id) == id \notin DOMAIN store

SaveMessage(store, id, m) ==
    IF SaveOk(store, id)
    THEN [k \in (DOMAIN store) \cup {id} |-> IF k = id THEN m ELSE store[k]]
    ELSE store

\* seq, sorted, with the key k put at its place
RECURSIVE InsertKey(_, _)
InsertKey(k, seq) ==
    IF seq = <<>> \/ StrLess(k, Head(seq)) THEN <<k>> \o seq
    ELSE <<Head(seq)>> \o InsertKey(k, Tail(seq))

\* the keys of the map in increasing string order
RECURSIVE SortedKeys(_)
SortedKeys(S) ==
    IF S = {} THEN <<>>
    ELSE LET k == CHOOSE x \in S : TRUE IN InsertKey(k, SortedKeys(S \ {k}))

\* the messages stored under the keys, in the order of keys
RECURSIVE Records(_, _)
Records(store, keys) ==
    IF keys = <<>> THEN <<>>
    ELSE <<store[Head(keys)]>> \o Records(store, Tail(keys))

\* GetAllMessages: the stored messages in identifier order
GetAllMessages(store) == Records(store, SortedKeys(DOMAIN store))

(* ------------------------------------------------------------------ *)
(* State                                                               *)
(* ------------------------------------------------------------------ *)
VARIABLES
    pc,                 \* position of main: the call it is blocked in, or its end
    config,             \* the loaded Config: EnableMCP and len(MCP.Servers)
    conversation,       \* conversation.Messages: identifier -> message
    clock,              \* the last wall-clock reading (at first, the process start)
    elapsed,            \* the clock has certainly advanced since that reading
    ollamaTools,        \* names of the tools loaded at startup
    mcpClient,          \* the MCP client: "nil", "created" or "initialized"
    linesRead,          \* number of lines the scanner has delivered
    userInput,          \* the line of the current iteration
    messages,           \* the window of the current iteration
    toolCall,           \* name of the tool call under consideration
    assistantResponse,  \* the strings.Builder of the current iteration
    exitCode,           \* exit status of the process, -1 while it runs
    farewell,           \* "Goodbye!" has been printed
    saved,              \* history: the messages whose save succeeded, in order
    ids,                \* history: the identifiers generateMsgID returned, in order
    saveFailed,         \* history: the saves of this iteration that returned an error
    window0,            \* history: the window as built before the tool gate
    gate,               \* history: how the tool gate of this iteration ended
    proposed,           \* history: tool calls proposed by the tools model
    toolText,           \* history: text returned by the tool invocation
    toolsReqs,          \* history: message lists sent to the tools model this iteration
    invoked,            \* history: tool names passed to CallTool this iteration
    chatReqs,           \* history: message lists sent to ChatStream this iteration
    delivered,          \* history: fragments the chat backend delivered this iteration
    emitted             \* fragments printed by the stream callback this iteration

vars == <<pc, config, conversation, clock, elapsed, ollamaTools, mcpClient,
          linesRead, userInput, messages, toolCall, assistantResponse, exitCode,
          farewell, saved, ids, saveFailed, window0, gate, proposed, toolText,
          toolsReqs, invoked, chatReqs, delivered, emitted>>

\* variables that only the startup code writes
startupVars == <<config, ollamaTools, mcpClient>>
\* variables of one loop iteration that the stream callback does not touch
gateVars == <<userInput, toolCall, window0, gate, proposed, toolText, toolsReqs, invoked>>

Init ==
    /\ pc = "load"
    /\ config = [EnableMCP |-> FALSE, Servers |-> 0]
    /\ conversation = EmptyStore
    /\ clock = ClockStart
    /\ elapsed = TRUE
    /\ ollamaTools = <<>>
    /\ mcpClient = "nil"
    /\ linesRead = 0
    /\ userInput = <<>>
    /\ messages = <<>>
    /\ toolCall = <<>>
    /\ assistantResponse = <<>>
    /\ exitCode = -1
    /\ farewell = FALSE
    /\ saved = <<>>
    /\ ids = <<>>
    /\ saveFailed = {}
    /\ window0 = <<>>
    /\ gate = "none"
    /\ proposed = <<>>
    /\ toolText = <<>>
    /\ toolsReqs = <<>>
    /\ invoked = <<>>
    /\ chatReqs = <<>>
    /\ delivered = <<>>
    /\ emitted = <<>>

(* ------------------------------------------------------------------ *)
(* The wall clock                                                      *)
(* ------------------------------------------------------------------ *)
\* time.Now() can return clock + d: readings never decrease, and two readings
\* are equal only when no request to a backend or tool server lies between
TimeNow(d) == d \in Ticks /\ (elapsed => d > 0)

(* ------------------------------------------------------------------ *)
(* Startup: main.go:151-205                                            *)
(* ------------------------------------------------------------------ *)
\* variant: the fatal path ends the process with status 0
FatalExitZero ==
    /\ pc' = "fatal"
    /\ exitCode' = 0

\* variant: the error is reported and the loop goes on
FatalContinue ==
    /\ pc' = "await"
    /\ UNCHANGED exitCode

\* log.Fatalf / log.Fatalln: the process ends with status 1
Fatal ==
    /\ pc' = "fatal"
    /\ exitCode' = 1

\* loadConfig, then the seeding of the store with the system message
LoadConfig(ok, enable, servers, d) ==
    /\ pc = "load"
    /\ IF ~ok
       THEN /\ Fatal
            /\ UNCHANGED <<config, conversation, clock, saved, ids, saveFailed>>
       ELSE LET id == generateMsgID(clock + d)
                m == Message(RoleSystem, SystemPrompt)
            IN /\ TimeNow(d)
               /\ ids' = Append(ids, id)
               /\ config' = [EnableMCP |-> enable, Servers |-> servers]
               /\ clock' = clock + d
               /\ IF SaveOk(conversation, id)
                  THEN /\ conversation' = SaveMessage(conversation, id, m)
                       /\ saved' = Append(saved, m)
                       /\ pc' = "mcp"
                       /\ UNCHANGED <<exitCode, saveFailed>>
                  ELSE /\ Fatal
                       /\ saveFailed' = saveFailed \cup {"system"}
                       /\ UNCHANGED <<conversation, saved>>
    /\ elapsed' = ~ok
    /\ UNCHANGED <<ollamaTools, mcpClient, linesRead, userInput, messages,
                   toolCall, assistantResponse, farewell, window0, gate, proposed,
                   toolText, toolsReqs, invoked, chatReqs, delivered, emitted>>

\* mcpstdio.NewClient, when MCP is enabled and a server is configured
McpNewClient(ok) ==
    /\ pc = "mcp"
    /\ IF config.EnableMCP /\ config.Servers > 0
       THEN /\ elapsed' = TRUE
            /\ IF ok
               THEN /\ mcpClient' = "created"
                    /\ pc' = "mcp_init"
               ELSE /\ pc' = "await"
                    /\ UNCHANGED mcpClient
       ELSE /\ pc' = "await"
            /\ UNCHANGED <<mcpClient, elapsed>>
    /\ UNCHANGED <<config, conversation, clock, ollamaTools, linesRead, userInput,
                   messages, toolCall, assistantResponse, exitCode, farewell, saved,
                   ids, saveFailed, window0, gate, proposed, toolText, toolsReqs,
                   invoked, chatReqs, delivered, emitted>>

\* mcpClient.Initialize
McpInitialize(ok) ==
    /\ pc = "mcp_init"
    /\ elapsed' = TRUE
    /\ IF ok
       THEN /\ mcpClient' = "initialized"
            /\ pc' = "mcp_list"
            /\ UNCHANGED exitCode
       ELSE /\ Fatal
            /\ UNCHANGED mcpClient
    /\ UNCHANGED <<config, conversation, clock, ollamaTools, linesRead, userInput,
                   messages, toolCall, assistantResponse, farewell, saved,
                   ids, saveFailed, window0, gate, proposed, toolText, toolsReqs,
                   invoked, chatReqs, delivered, emitted>>

\* mcpClient.ListTools
McpListTools(ok, tools) ==
    /\ pc = "mcp_list"
    /\ elapsed' = TRUE
    /\ ollamaTools' = IF ok THEN tools ELSE ollamaTools
    /\ pc' = "await"
    /\ UNCHANGED <<config, conversation, clock, mcpClient, linesRead, userInput,
                   messages, toolCall, assistantResponse, exitCode, farewell, saved,
                   ids, saveFailed, window0, gate, proposed, toolText, toolsReqs,
                   invoked, chatReqs, delivered, emitted>>

(* ------------------------------------------------------------------ *)
(* Session loop: main.go:214-357                                       *)
(* ------------------------------------------------------------------ *)
\* variant: the system message is put behind the history
BuildWindowSystemLast(store) ==
    getLastMessages(GetAllMessages(store)) \o <<Message(RoleSystem, SystemPrompt)>>

\* the window of main.go:237-246 over the store as it is after the user save
BuildWindow(store) ==
    <<Message(RoleSystem, SystemPrompt)>> \o getLastMessages(GetAllMessages(store))

\* variant: the gate is entered whenever MCP is enabled
ToolsAvailableIfEnabled == config.EnableMCP

\* len(ollamaTools) > 0
ToolsAvailable == Len(ollamaTools) > 0

\* the locals of the previous iteration, and its history, are gone
ResetIteration ==
    /\ toolCall' = <<>>
    /\ assistantResponse' = <<>>
    /\ saveFailed' = {}
    /\ gate' = "none"
    /\ proposed' = <<>>
    /\ toolText' = <<>>
    /\ invoked' = <<>>
    /\ delivered' = <<>>
    /\ emitted' = <<>>

\* no window is built and no request is issued in this iteration
NoTurn ==
    /\ messages' = <<>>
    /\ window0' = <<>>
    /\ toolsReqs' = <<>>
    /\ chatReqs' = <<>>

\* variant: the loop is left without the farewell
GoodbyeSilent ==
    /\ pc' = "closed"
    /\ UNCHANGED farewell
    /\ exitCode' = 0

\* leave the loop: main.go:356-357
Goodbye ==
    /\ pc' = "closed"
    /\ farewell' = TRUE
    /\ exitCode' = 0

\* scanner.Scan() returns false
EndOfInput ==
    /\ pc = "await"
    /\ Goodbye
    /\ UNCHANGED <<config, conversation, clock, elapsed, ollamaTools, mcpClient,
                   linesRead, userInput, messages, toolCall, assistantResponse,
                   saved, ids, saveFailed, window0, gate, proposed, toolText,
                   toolsReqs, invoked, chatReqs, delivered, emitted>>

\* scanner.Scan() delivers line: main.go:220-279, up to the first request
ReadLine(line, d) ==
    /\ pc = "await"
    /\ linesRead < MaxLines
    /\ linesRead' = linesRead + 1
    /\ userInput' = line
    /\ ResetIteration
    /\ UNCHANGED startupVars
    /\ IF IsQuitCommand(line)
       THEN /\ Goodbye
            /\ NoTurn
            /\ UNCHANGED <<conversation, clock, elapsed, saved, ids>>
       ELSE IF IsBlank(line)
       THEN /\ pc' = "await"
            /\ NoTurn
            /\ UNCHANGED <<conversation, clock, elapsed, saved, ids, exitCode,
                           farewell>>
       ELSE LET id == generateMsgID(clock + d)
                m == Message(RoleUser, line)
            IN /\ TimeNow(d)
               /\ ids' = Append(ids, id)
               /\ clock' = clock + d
               /\ elapsed' = FALSE
               /\ UNCHANGED farewell
               /\ IF ~SaveOk(conversation, id)
                  THEN /\ Fatal
                       /\ saveFailed' = {"user"}
                       /\ NoTurn
                       /\ UNCHANGED <<conversation, saved>>
                  ELSE /\ conversation' = SaveMessage(conversation, id, m)
                       /\ saved' = Append(saved, m)
                       /\ messages' = BuildWindow(conversation')
                       /\ window0' = messages'
                       /\ UNCHANGED exitCode
                       /\ IF ToolsAvailable
                          THEN /\ toolsReqs' = <<messages'>>
                               /\ chatReqs' = <<>>
                               /\ pc' = "tools_chat"
                          ELSE /\ toolsReqs' = <<>>
                               /\ chatReqs' = <<messages'>>
                               /\ pc' = "chat_stream"

\* the tool gate is over: main.go:326-334 issues the streaming request
IssueChat(window) ==
    /\ chatReqs' = Append(chatReqs, window)
    /\ pc' = "chat_stream"

\* variant: a failed tool call sends the turn back to the tools model
OnToolCallFailedRetry ==
    /\ gate' = "call_failed"
    /\ pc' = "tools_chat"
    /\ UNCHANGED chatReqs

\* variant: a failed stream is reported and the loop goes on
OnStreamFailedRecover ==
    /\ pc' = "await"
    /\ UNCHANGED exitCode

\* completion.ChatStream returned an error: main.go:341-343
OnStreamFailed == Fatal

\* variant: a failed tools check ends the process
OnToolsCheckFailedFatal ==
    /\ gate' = "request_failed"
    /\ pc' = "fatal"
    /\ UNCHANGED chatReqs

\* completion.Chat returned an error: main.go:280-282
OnToolsCheckFailed ==
    /\ gate' = "request_failed"
    /\ IssueChat(messages)

\* mcpClient.CallTool returned an error: main.go:295-296
OnToolCallFailed ==
    /\ gate' = "call_failed"
    /\ IssueChat(messages)

\* completion.Chat with the tools model returns: main.go:279-293
ToolsAnswer(ok, calls) ==
    /\ pc = "tools_chat"
    /\ elapsed' = TRUE
    /\ IF ~ok
       THEN /\ OnToolsCheckFailed
            /\ UNCHANGED <<proposed, toolCall, invoked>>
       ELSE /\ proposed' = calls
            /\ IF Len(calls) = 0
               THEN /\ gate' = "no_calls"
                    /\ IssueChat(messages)
                    /\ UNCHANGED <<toolCall, invoked>>
               ELSE /\ toolCall' = FirstToolCall(calls)
                    /\ IF ~toolExists(toolCall', ollamaTools)
                       THEN /\ gate' = "unknown_tool"
                            /\ IssueChat(messages)
                            /\ UNCHANGED invoked
                       ELSE /\ invoked' = Append(invoked, toolCall')
                            /\ pc' = "call_tool"
                            /\ UNCHANGED <<gate, chatReqs>>
    /\ UNCHANGED <<config, conversation, clock, ollamaTools, mcpClient, linesRead,
                   userInput, messages, assistantResponse, exitCode, farewell,
                   saved, ids, saveFailed, window0, toolText, toolsReqs, delivered,
                   emitted>>

\* mcpClient.CallTool returns: main.go:293-321
ToolResult(ok, text, d1, d2) ==
    /\ pc = "call_tool"
    /\ IF ~ok
       THEN /\ OnToolCallFailed
            /\ elapsed' = TRUE
            /\ UNCHANGED <<messages, conversation, clock, saved, ids, saveFailed,
                           toolText>>
       ELSE LET ack == Message(RoleAssistant, UsedToolText(toolCall))
                res == Message(RoleUser, text)
                id1 == generateMsgID(clock + d1)
                ok1 == SaveOk(conversation, id1)
                store1 == SaveMessage(conversation, id1, ack)
                id2 == generateMsgID(clock + d1 + d2)
                ok2 == SaveOk(store1, id2)
            IN \* the first reading follows the tool call, the second has
               \* nothing but the first save before it
               /\ d1 \in Ticks /\ d1 > 0
               /\ d2 \in Ticks
               /\ gate' = "tool_ok"
               /\ toolText' = text
               /\ messages' = messages \o <<ack, res>>
               /\ clock' = clock + d1 + d2
               /\ elapsed' = FALSE
               /\ ids' = ids \o <<id1, id2>>
               /\ conversation' = SaveMessage(store1, id2, res)
               /\ saved' = saved \o (IF ok1 THEN <<ack>> ELSE <<>>)
                                 \o (IF ok2 THEN <<res>> ELSE <<>>)
               /\ saveFailed' = saveFailed \cup (IF ok1 THEN {} ELSE {"ack"})
                                           \cup (IF ok2 THEN {} ELSE {"result"})
               /\ IssueChat(messages')
    /\ UNCHANGED <<config, ollamaTools, mcpClient, linesRead, userInput, toolCall,
                   assistantResponse, exitCode, farewell, window0, proposed,
                   toolsReqs, invoked, delivered, emitted>>

\* the callback of completion.ChatStream runs for one fragment: main.go:335-339
StreamFragment(f) ==
    /\ pc = "chat_stream"
    /\ \A i \in 1..Len(delivered) : delivered[i] # f
    /\ delivered' = Append(delivered, f)
    /\ emitted' = Append(emitted, f)
    /\ assistantResponse' = WriteString(assistantResponse, f)
    /\ elapsed' = TRUE
    /\ UNCHANGED <<pc, config, conversation, clock, ollamaTools, mcpClient,
                   linesRead, messages, exitCode, farewell, saved, ids, saveFailed,
                   chatReqs>>
    /\ UNCHANGED gateVars

\* completion.ChatStream returns: main.go:341-353
StreamEnd(ok, d) ==
    /\ pc = "chat_stream"
    /\ IF ~ok
       THEN /\ OnStreamFailed
            /\ elapsed' = TRUE
            /\ UNCHANGED <<conversation, clock, saved, ids, saveFailed>>
       ELSE LET id == generateMsgID(clock + d)
                m == Message(RoleAssistant, assistantResponse)
            IN \* the reading follows the streaming request
               /\ d \in Ticks /\ d > 0
               /\ ids' = Append(ids, id)
               /\ clock' = clock + d
               /\ elapsed' = FALSE
               /\ IF SaveOk(conversation, id)
                  THEN /\ conversation' = SaveMessage(conversation, id, m)
                       /\ saved' = Append(saved, m)
                       /\ pc' = "await"
                       /\ UNCHANGED <<exitCode, saveFailed>>
                  ELSE /\ Fatal
                       /\ saveFailed' = saveFailed \cup {"assistant"}
                       /\ UNCHANGED <<conversation, saved>>
    /\ UNCHANGED <<config, ollamaTools, mcpClient, linesRead, messages,
                   assistantResponse, farewell, chatReqs, delivered, emitted>>
    /\ UNCHANGED gateVars

(* ------------------------------------------------------------------ *)
(* Specification                                                       *)
(* ------------------------------------------------------------------ *)
Next ==
    \/ \E ok \in BOOLEAN, enable \in BOOLEAN, servers \in 0..1, d \in Ticks :
           LoadConfig(ok, enable, servers, d)
    \/ \E ok \in BOOLEAN : McpNewClient(ok)
    \/ \E ok \in BOOLEAN : McpInitialize(ok)
    \/ \E ok \in BOOLEAN, tools \in ToolSets : McpListTools(ok, tools)
    \/ EndOfInput
    \/ \E line \in Lines, d \in Ticks : ReadLine(line, d)
    \/ \E ok \in BOOLEAN, calls \in ToolCallLists : ToolsAnswer(ok, calls)
    \/ \E ok \in BOOLEAN, text \in ToolTexts, d1 \in Ticks, d2 \in Ticks :
           ToolResult(ok, text, d1, d2)
    \/ \E f \in Fragments : StreamFragment(f)
    \/ \E ok \in BOOLEAN, d \in Ticks : StreamEnd(ok, d)

Spec == Init /\ [][Next]_vars

\* main runs on: every call it makes returns, and the scanner either delivers
\* a line or reports the end of the (finite) input
FairSpec == Spec /\ WF_vars(Next)

(* ------------------------------------------------------------------ *)
(* Properties                                                          *)
(* ------------------------------------------------------------------ *)
SystemMessage == Message(RoleSystem, SystemPrompt)
\* the user message of the current iteration
UserMessage == Message(RoleUser, userInput)
\* the two messages a successful tool invocation produces
AckMessage == Message(RoleAssistant, UsedToolText(toolCall))
ResultMessage == Message(RoleUser, toolText)

Min(a, b) == IF a <= b THEN a ELSE b
Last(seq) == seq[Len(seq)]
Elems(seq) == {seq[i] : i \in 1..Len(seq)}

RECURSIVE Concat(_)
Concat(frags) == IF frags = <<>> THEN <<>> ELSE Head(frags) \o Concat(Tail(frags))

OnlySpaces(line) == \A i \in 1..Len(line) : line[i] \in {" ", "\t"}
GateFailed == gate \in {"request_failed", "call_failed"}
\* the step in which the scanner delivers a line
LineStep == linesRead' = linesRead + 1

\* C1: without tools, the chat backend receives in the first processed turn
\* exactly the system message followed by the user's message.
C1_FirstRequestIsSystemThenUser ==
    (pc = "chat_stream" /\ ollamaTools = <<>> /\ Len(saved) = 2)
        => chatReqs = << <<SystemMessage, UserMessage>> >>

\* C2: the window built before the tool gate is the synthetic system message
\* followed by the last min(K, n) stored messages in their order, K = 4; with a
\* negative limit the selector returns the whole history.
C2_WindowIsSystemPlusLastK ==
    (pc \in {"tools_chat", "call_tool"} \/ (pc = "chat_stream" /\ gate # "tool_ok"))
        => LET n == Len(saved)
               k == Min(MaxConversationMessages, n)
           IN /\ Len(window0) = k + 1
              /\ window0[1] = SystemMessage
              /\ \A i \in 1..k : window0[i + 1] = saved[n - k + i]
              /\ getLastMessagesWith(-1, saved) = saved

C2_Witness ==
    /\ pc = "tools_chat"
    /\ Len(saved) > MaxConversationMessages
    /\ Len(window0) = MaxConversationMessages + 1

\* C3: retrieving all messages returns every saved message once, in the order
\* in which the saves were made.
C3_RetrievalIsSaveOrder == GetAllMessages(conversation) = saved

C3_Witness ==
    /\ pc = "await"
    /\ gate = "tool_ok"
    /\ saveFailed = {}
    /\ Len(saved) >= 5

\* C4: after a successful invocation of a known tool, the store has gained
\* exactly the acknowledgment and the result message, in this order, and the
\* chat request carries the pre-gate window followed by the same two messages.
C4_ToolPairStoredAndSent ==
    (pc = "chat_stream" /\ gate = "tool_ok")
        => /\ Len(saved) >= 3
           /\ SubSeq(saved, Len(saved) - 2, Len(saved))
                  = <<UserMessage, AckMessage, ResultMessage>>
           /\ chatReqs = <<window0 \o <<AckMessage, ResultMessage>> >>

\* C5: a proposed tool that is not in the tool set is not invoked, adds nothing
\* to the store or the window, and the chat request goes out with the window
\* unchanged; every invoked name is in the tool set.
C5_UnknownToolNotInvoked ==
    /\ \A i \in 1..Len(invoked) : invoked[i] \in Elems(ollamaTools)
    /\ gate = "unknown_tool"
        => /\ toolCall \notin Elems(ollamaTools)
           /\ invoked = <<>>
           /\ messages = window0
           /\ chatReqs = <<window0>>
           /\ saveFailed \cap {"ack", "result"} = {}
           /\ pc = "chat_stream" => Last(saved) = UserMessage
           /\ pc = "await" => /\ saved[Len(saved) - 1] = UserMessage
                              /\ Last(saved).Role = RoleAssistant

C5_Witness ==
    /\ gate = "unknown_tool"
    /\ proposed = <<ToolC, ToolA>>
    /\ pc = "await"

\* C6: when the tools-model request or the tool invocation fails, nothing is
\* added to the store or the window, the chat request of the turn is issued
\* with the pre-gate window, and the session goes on.
C6_GateFailureIsNotFatal ==
    GateFailed
        => /\ messages = window0
           /\ chatReqs = <<window0>>
           /\ saveFailed \cap {"ack", "result"} = {}
           /\ pc \in {"chat_stream", "await", "closed", "fatal"}
           /\ pc = "chat_stream" => exitCode = -1 /\ Last(saved) = UserMessage
           /\ pc \in {"await", "closed"}
                  => /\ exitCode = (IF pc = "await" THEN -1 ELSE 0)
                     /\ saved[Len(saved) - 1] = UserMessage
                     /\ Last(saved).Role = RoleAssistant

C6_Witness ==
    /\ gate = "call_failed"
    /\ pc = "chat_stream"
    /\ linesRead = 2
    /\ \E i \in 1..Len(saved) : saved[i].Content = UsedToolText(ToolA)

\* C7: per turn at most one tools-model request and at most one tool
\* invocation are made, the invocation is for the first proposed call only,
\* and nothing is retried after a failure.
C7_OneRequestOneInvocation ==
    /\ Len(toolsReqs) <= 1
    /\ Len(invoked) <= 1
    /\ Len(chatReqs) <= 1
    /\ invoked # <<>> => proposed # <<>> /\ invoked = <<proposed[1]>>
    /\ gate = "request_failed" => invoked = <<>>

C7_Witness ==
    /\ proposed = <<ToolA, ToolB>>
    /\ invoked = <<ToolA>>
    /\ gate = "call_failed"

\* C8: the fragments of a stream are printed in the order delivered, and when
\* the stream completes exactly one assistant message is appended whose
\* content is their concatenation.
C8_StreamEmittedAndStored ==
    /\ [](/\ emitted = delivered
          /\ assistantResponse = Concat(delivered)
          /\ "assistant" \notin saveFailed
          /\ (pc = "await" /\ chatReqs # <<>>)
                 => Last(saved) = Message(RoleAssistant, Concat(emitted)))
    /\ [][(pc = "chat_stream" /\ pc' = "await")
              => saved' = Append(saved, Message(RoleAssistant, Concat(delivered)))]_vars

C8_Witness ==
    /\ pc = "await"
    /\ delivered = << <<"H", "i">>, <<"!">> >>
    /\ Last(saved).Content = <<"H", "i", "!">>

\* C9: a line equal to exit or quit closes the session without a save or a
\* request; any other line that is not blank enters a user turn.
C9_ExactQuitCommands ==
    [][LineStep =>
          /\ userInput' \in {LineExit, LineQuit}
                 => /\ pc' = "closed"
                    /\ saved' = saved
                    /\ conversation' = conversation
                    /\ toolsReqs' = <<>> /\ invoked' = <<>> /\ chatReqs' = <<>>
          /\ (userInput' \notin {LineExit, LineQuit} /\ ~OnlySpaces(userInput'))
                 => /\ pc' # "closed"
                    /\ \/ saved' = Append(saved, Message(RoleUser, userInput'))
                       \/ saveFailed' = {"user"}]_vars

C9_Witness ==
    /\ pc = "closed"
    /\ userInput = LineQuit
    /\ Len(saved) >= 3
    /\ saved[2] = Message(RoleUser, LineQuitSp)

\* C10: a blank or whitespace-only line leaves the store as it is, issues no
\* request, and the loop awaits the next line.
C10_BlankLineDiscarded ==
    [][(LineStep /\ OnlySpaces(userInput'))
          => /\ pc' = "await"
             /\ saved' = saved
             /\ conversation' = conversation
             /\ toolsReqs' = <<>> /\ invoked' = <<>> /\ chatReqs' = <<>>]_vars

C10_Witness ==
    /\ pc = "await"
    /\ userInput = LineBlank
    /\ linesRead = 2
    /\ Len(saved) >= 3

\* the stream of this iteration ended without an assistant message being saved
StreamFailedStep == pc = "chat_stream" /\ pc' # "chat_stream" /\ saved' = saved

\* C11: a failed streaming chat request ends the session: no assistant message
\* is saved for the turn, and nothing happens afterwards.
C11_StreamFailureIsFatal ==
    /\ [][StreamFailedStep
              => /\ pc' = "fatal"
                 /\ exitCode' # -1
                 /\ conversation' = conversation
                 /\ linesRead' = linesRead]_vars
    /\ [][pc # "fatal"]_vars

C11_Witness ==
    /\ pc = "fatal"
    /\ Len(chatReqs) = 1
    /\ delivered # <<>>
    /\ saveFailed = {}
    /\ Last(saved).Role = RoleUser

\* C12: the process never ends with an exit status other than 0.
C12_ExitStatusAlwaysZero == exitCode \in {-1, 0}

\* C12, amended: the status is 0 exactly on the normal close (with the
\* farewell) and 1 exactly on a fatal path.
C12_ExitStatusByPath ==
    /\ exitCode \in {-1, 0, 1}
    /\ exitCode = 0 <=> pc = "closed"
    /\ exitCode = 1 <=> pc = "fatal"
    /\ farewell <=> pc = "closed"

C12_Witness ==
    /\ pc = "fatal"
    /\ exitCode = 1
    /\ Len(chatReqs) = 1
    /\ ~farewell

\* C13: no failure while the tool transport is started aborts the session; it
\* goes on without tools.
C13_StartupFailureDegrades ==
    /\ ~(pc = "fatal" /\ linesRead = 0 /\ saved # <<>>)
    /\ mcpClient # "initialized" => ollamaTools = <<>>

\* seq is an initial part of seq2
IsPrefix(seq, seq2) ==
    Len(seq) <= Len(seq2) /\ SubSeq(seq2, 1, Len(seq)) = seq

\* a turn has run to its end: the assistant message of the iteration is saved
TurnCompleted == pc = "await" /\ chatReqs # <<>>

\* C14: the log starts as the one system message, is only ever appended to, and
\* a completed turn has added the user message, the two tool messages if and
\* only if a tool invocation succeeded, and the assistant message.
C14_LogGrowsByTurn ==
    /\ [](pc = "mcp" => /\ saved = <<SystemMessage>>
                        /\ GetAllMessages(conversation) = <<SystemMessage>>)
    /\ [](TurnCompleted
              => LET n == Len(saved)
                     assistant == Message(RoleAssistant, assistantResponse)
                 IN IF gate = "tool_ok"
                    THEN /\ n >= 5
                         /\ SubSeq(saved, n - 3, n)
                                = <<UserMessage, AckMessage, ResultMessage, assistant>>
                    ELSE /\ n >= 3
                         /\ SubSeq(saved, n - 1, n) = <<UserMessage, assistant>>)
    /\ [][/\ IsPrefix(saved, saved')
          /\ \A k \in DOMAIN conversation :
                 k \in DOMAIN conversation' /\ conversation'[k] = conversation[k]
          /\ pc = "call_tool"
                 => saved' = (IF gate' = "tool_ok"
                              THEN saved \o <<AckMessage', ResultMessage'>>
                              ELSE saved)]_vars

\* C15: a failed save in the session loop ends the session: no request is
\* pending or issued after it and no later line is processed.
C15_SaveFailureIsFatal ==
    (linesRead > 0 /\ saveFailed # {}) => pc = "fatal"

\* C16: every identifier handed to a save is strictly greater than every
\* identifier handed to an earlier save, so no save meets a key that is present.
C16_IdentifiersStrictlyIncrease ==
    /\ \A i, j \in 1..Len(ids) : i < j => StrLess(ids[i], ids[j])
    /\ saveFailed = {}

\* C17: a processed turn runs user save, window, tools-model request (with
\* tools only), tool invocation and its two saves (for a known tool only), chat
\* request, assistant save, in this order; no chat request precedes the user
\* save, and a line is read only when no turn is under way.
C17_TurnOrder ==
    /\ [](/\ pc = "tools_chat"
              => /\ Last(saved) = UserMessage
                 /\ toolsReqs = <<window0>>
                 /\ invoked = <<>> /\ chatReqs = <<>> /\ delivered = <<>>
          /\ pc = "call_tool"
              => /\ Last(saved) = UserMessage
                 /\ toolsReqs = <<window0>>
                 /\ invoked = <<toolCall>> /\ chatReqs = <<>> /\ delivered = <<>>
          /\ pc = "chat_stream"
              => /\ UserMessage \in Elems(saved)
                 /\ Len(chatReqs) = 1
                 /\ toolsReqs # <<>> <=> ollamaTools # <<>>
                 /\ invoked # <<>> <=> gate \in {"call_failed", "tool_ok"})
    /\ [][/\ LineStep => pc = "await"
          /\ (pc = "await" /\ pc' \notin {"await", "closed"})
                 => /\ LineStep
                    /\ Len(ids') = Len(ids) + 1
                    /\ pc' \in {"tools_chat", "chat_stream", "fatal"}
                    /\ pc' = "fatal" => saveFailed' = {"user"} /\ chatReqs' = <<>>
                    /\ pc' # "fatal" => saved' = Append(saved, UserMessage')
                    /\ pc' = "tools_chat" => ollamaTools # <<>>
          /\ pc = "tools_chat"
                 => /\ pc' \in {"call_tool", "chat_stream"}
                    /\ ids' = ids /\ saved' = saved /\ linesRead' = linesRead
          /\ pc = "call_tool"
                 => /\ pc' = "chat_stream"
                    /\ linesRead' = linesRead
                    /\ Len(ids') = Len(ids) + (IF gate' = "tool_ok" THEN 2 ELSE 0)
          /\ pc = "chat_stream"
                 => /\ pc' \in {"chat_stream", "await", "fatal"}
                    /\ chatReqs' = chatReqs /\ toolsReqs' = toolsReqs
                    /\ invoked' = invoked /\ linesRead' = linesRead
                    /\ Len(ids') = Len(ids) + (IF pc' = "chat_stream" \/ StreamFailedStep
                                               THEN 0 ELSE 1)
                    /\ pc' = "await" => Last(saved').Role = RoleAssistant]_vars

C17_Witness ==
    /\ TurnCompleted
    /\ gate = "tool_ok"
    /\ invoked = <<ToolA>>
    /\ Len(toolsReqs) = 1 /\ Len(chatReqs) = 1
    /\ Len(ids) = Len(saved)
    /\ linesRead = 2

\* the session has ended, normally or through a fatal error
Stopped == pc \in {"closed", "fatal"}

\* C18: the end of input closes the session directly; with finite input and
\* returning calls the session ends, closed or fatal; when closed it has said
\* farewell and the status is 0, whatever tool-gate failures the turns had.
C18_SessionEnds ==
    /\ <>Stopped
    /\ [](pc = "closed" => farewell /\ exitCode = 0)
    /\ [][(pc = "await" /\ linesRead' = linesRead)
              => /\ pc' = "closed"
                 /\ saved' = saved /\ ids' = ids
                 /\ toolsReqs' = toolsReqs /\ chatReqs' = chatReqs
                 /\ invoked' = invoked]_vars

C18_Witness ==
    /\ pc = "closed"
    /\ farewell
    /\ exitCode = 0
    /\ GateFailed
    /\ linesRead = 1

\* C19: the tools model is asked and a tool is invoked only with a non-empty
\* tool set; the set is non-empty only with MCP enabled, a server configured
\* and the client created, initialized and listed; it is fixed after startup.
C19_ToolsOnlyWhenStarted ==
    /\ []((toolsReqs # <<>> \/ invoked # <<>> \/ pc \in {"tools_chat", "call_tool"})
              => ollamaTools # <<>>)
    /\ [](ollamaTools # <<>>
              => /\ config.EnableMCP
                 /\ config.Servers > 0
                 /\ mcpClient = "initialized")
    /\ [](pc \in {"mcp_init", "mcp_list"} => config.EnableMCP /\ config.Servers > 0)
    /\ [][/\ ollamaTools' # ollamaTools => pc = "mcp_list" /\ ollamaTools = <<>>
          /\ mcpClient' # mcpClient => pc \in {"mcp", "mcp_init"}
          /\ linesRead > 0 => UNCHANGED startupVars]_vars

C19_Witness ==
    /\ pc = "call_tool"
    /\ mcpClient = "initialized"
    /\ ollamaTools = <<ToolA, ToolB>>
    /\ invoked = <<ToolA>>

\* C20: every request of a turn carries the turn's user message, behind the
\* older entries of the window and before the tool messages of the turn; the
\* chat request has at most 1 + MaxConversationMessages + 2 messages.
C20_UserMessageInEveryRequest ==
    /\ window0 # <<>>
           => /\ Last(window0) = UserMessage
              /\ Len(window0) <= 1 + MaxConversationMessages
    /\ \A i \in 1..Len(toolsReqs) : toolsReqs[i] = window0 /\ window0 # <<>>
    /\ \A i \in 1..Len(chatReqs) :
           /\ window0 # <<>>
           /\ chatReqs[i] = (IF gate = "tool_ok"
                             THEN window0 \o <<AckMessage, ResultMessage>>
                             ELSE window0)
           /\ Len(chatReqs[i]) <= 1 + MaxConversationMessages + 2

C20_Witness ==
    /\ pc = "chat_stream"
    /\ gate = "tool_ok"
    /\ Len(chatReqs[1]) = 1 + MaxConversationMessages + 2
    /\ chatReqs[1][1 + MaxConversationMessages] = UserMessage

====
